---- MODULE Spec2Model ----
(***************************************************************************)
(* Research-paper labelling pipeline: src/paper/paper.py (Strategy A, the  *)
(* Hugging Face Inference API) and src/paper_classifier/classifier.py      *)
(* (Strategy B, a local zero-shot pipeline).  Both programs share          *)
(* extract_pdf_metadata, signal_handler and process_pdfs; they differ in   *)
(* classify_paper.  Texts are strings, an optional value is <<>> (None) or *)
(* <<s>>, confidence scores are integer hundredths.                        *)
(***************************************************************************)
EXTENDS Integers, Sequences, FiniteSets, TLC

(* ------------------------------ bounds -------------------------------- *)

\* Most entries os.listdir returns for the folder.
MaxEntries == 2

\* Most SIGINT deliveries during one run.
MaxSignals == 2

\* Length of the abstract of the library's long document.
PadLen == 2100

(* ------------------------- program constants -------------------------- *)

CATEGORIES ==
    << "Graph-Based Learning",
       "Optimization Algorithms",
       "Machine Learning Theory",
       "Reinforcement Learning & Bandits",
       "Applied AI in Healthcare & Web Systems" >>

\* combined_text = f"{title}. {abstract}"[:2000]
MaxChars == 2000

\* if highest_score > 0.3, in hundredths
Threshold == 30

\* if response.status_code != 200
HTTP_OK == 200

\* for page in pdf.pages[:3]
MaxPages == 3

(* --------------------------- Python values ---------------------------- *)

None == << >>

Some(s) == << s >>

\* Python truthiness of an optional string: None and "" are falsy.
Truthy(o) == o # None /\ o[1] # ""

Min(S) == CHOOSE x \in S : \A y \in S : x <= y

CharAt(s, i) == SubSeq(s, i, i)

\* s[i:i+n], clipped at the end of s as a Python slice is
Slice(s, i, n) ==
    IF i > Len(s) THEN ""
    ELSE SubSeq(s, i, IF i + n - 1 > Len(s) THEN Len(s) ELSE i + n - 1)

\* str.isspace of one character, as \s and str.strip see it
IsSpace(c) == c \in {" ", "\n", "\t", "\r", "\f"}

RECURSIVE LStrip(_)
LStrip(s) ==
    IF s = "" THEN s
    ELSE IF IsSpace(Head(s)) THEN LStrip(Tail(s)) ELSE s

RECURSIVE RStrip(_)
RStrip(s) ==
    IF s = "" THEN s
    ELSE IF IsSpace(CharAt(s, Len(s))) THEN RStrip(SubSeq(s, 1, Len(s) - 1))
         ELSE s

\* str.strip()
Strip(s) == RStrip(LStrip(s))

\* text.split("\n")[0]
FirstLine(text) ==
    LET nl == {i \in 1..Len(text) : CharAt(text, i) = "\n"}
    IN  IF nl = {} THEN text ELSE SubSeq(text, 1, Min(nl) - 1)

\* re.IGNORECASE on the letters the pattern uses
LowerChar(c) ==
    CASE c = "A" -> "a" [] c = "B" -> "b" [] c = "S" -> "s" [] c = "T" -> "t"
      [] c = "R" -> "r" [] c = "C" -> "c" [] c = "I" -> "i" [] c = "N" -> "n"
      [] c = "O" -> "o" [] c = "D" -> "d" [] c = "U" -> "u" [] OTHER -> c

RECURSIVE Lower(_)
Lower(s) == IF s = "" THEN s ELSE LowerChar(Head(s)) \o Lower(Tail(s))

\* text[i:] starts with word, ignoring case
MatchesAt(text, i, word) ==
    /\ i + Len(word) - 1 <= Len(text)
    /\ LowerChar(CharAt(text, i)) = Head(word)
    /\ Lower(SubSeq(text, i, i + Len(word) - 1)) = word

\* The lookahead (?=\n\n|\n1\s|Introduction|INTRODUCTION|$) at position j,
\* where j = Len(text) + 1 is the end of the text; $ (no re.MULTILINE) also
\* matches just before a final newline.
Lookahead(text, j) ==
    \/ j = Len(text) + 1
    \/ j = Len(text) /\ CharAt(text, j) = "\n"
    \/ Slice(text, j, 2) = "\n\n"
    \/ Slice(text, j, 2) = "\n1" /\ j + 2 <= Len(text) /\ IsSpace(CharAt(text, j + 2))
    \/ MatchesAt(text, j, "introduction")

\* Length of the longest run of [\s:] starting at position q.
RECURSIVE SepRun(_, _)
SepRun(text, q) ==
    IF q > Len(text) THEN 0
    ELSE IF IsSpace(CharAt(text, q)) \/ CharAt(text, q) = ":"
         THEN 1 + SepRun(text, q + 1)
         ELSE 0

\* re.search(r'(Abstract|ABSTRACT)[\s:]*([\s\S]+?)(?=...)', text, re.IGNORECASE):
\* None when nothing matches, else group(2).  The leftmost start wins; [\s:]*
\* is greedy and gives one character back when it ran to the end of the text;
\* ([\s\S]+?) takes the fewest characters (at least one) that reach the
\* lookahead.
AbstractSearch(text) ==
    LET starts == {p \in 1..Len(text) :
                      MatchesAt(text, p, "abstract") /\ p + 8 <= Len(text)}
    IN  IF starts = {} THEN None
        ELSE LET p   == Min(starts)
                 run == SepRun(text, p + 8)
                 g   == IF p + 8 + run <= Len(text) THEN p + 8 + run
                        ELSE p + 8 + run - 1
                 m   == Min({k \in 1..(Len(text) - g + 1) : Lookahead(text, g + k)})
             IN  Some(SubSeq(text, g, g + m - 1))

(* ----------------------------- the folder ----------------------------- *)

RECURSIVE Rep(_, _)
Rep(s, n) ==
    IF n = 0 THEN ""
    ELSE IF n % 2 = 0 THEN LET h == Rep(s, n \div 2) IN h \o h
         ELSE s \o Rep(s, n - 1)

\* What pdfplumber finds in each file of the library: whether the file opens,
\* and the text page.extract_text() returns for each page (None: no text).
Library ==
    [ f \in {"routing.pdf", "corrupt.pdf", "blank.pdf", "long.pdf",
             "scan.pdf", "noabs.pdf", "notes.txt", "OLD.PDF"} |->
        CASE f = "routing.pdf" ->
               [readable |-> TRUE,
                pages |-> << Some("Routing\nAbstract: We study.\n\n1 Intro") >>]
          [] f = "corrupt.pdf" ->
               [readable |-> FALSE, pages |-> << >>]
          [] f = "blank.pdf" ->
               [readable |-> TRUE,
                pages |-> << Some(" \nAbstract\nBandits.\n1 Introduction") >>]
          [] f = "long.pdf" ->
               [readable |-> TRUE,
                pages |-> << Some("Opt\nabstract " \o Rep("x", PadLen)) >>]
          [] f = "scan.pdf" ->
               [readable |-> TRUE,
                pages |-> << None, Some(""), Some("ABSTRACT: late"), Some("Abstract: x") >>]
          [] f = "noabs.pdf" ->
               [readable |-> TRUE,
                pages |-> << Some("Survey\nWe introduce things"), None, None,
                             Some("Abstract: on page four") >>]
          [] OTHER ->
               [readable |-> FALSE, pages |-> << >>] ]

\* The listings os.listdir can return: distinct names, in any order.
Listings ==
    {s \in UNION {[1..n -> DOMAIN Library] : n \in 0..MaxEntries} :
        \A i, j \in DOMAIN s : i # j => s[i] # s[j]}

\* str.endswith
EndsWith(f, suffix) ==
    /\ Len(f) >= Len(suffix)
    /\ SubSeq(f, Len(f) - Len(suffix) + 1, Len(f)) = suffix

\* [f for f in os.listdir(PDF_FOLDER) if f.endswith(".pdf")]
PdfFiles(entries) == SelectSeq(entries, LAMBDA f : EndsWith(f, ".pdf"))

(* ------------------------ extract_pdf_metadata ------------------------ *)

\* The loop over pdf.pages[:3]: the first page with text that matches.
RECURSIVE ScanPages(_, _)
ScanPages(pages, i) ==
    IF i > Len(pages) \/ i > MaxPages THEN None
    ELSE IF ~Truthy(pages[i]) THEN ScanPages(pages, i + 1)
    ELSE LET m == AbstractSearch(pages[i][1])
         IN  IF m # None THEN Some(Strip(m[1])) ELSE ScanPages(pages, i + 1)

\* Whether the body of extract_pdf_metadata raises: pdfplumber.open fails, or
\* pdf.pages[0] is an IndexError.
ExtractRaises(doc) == ~doc.readable \/ doc.pages = << >>

\* extract_pdf_metadata: <<title, abstract>>
extract_pdf_metadata(doc) ==
    IF ExtractRaises(doc) THEN << None, None >>
    ELSE << IF Truthy(doc.pages[1])
            THEN Some(Strip(FirstLine(doc.pages[1][1])))
            ELSE None,
            ScanPages(doc.pages, 1) >>

\* What extract_pdf_metadata returns for each file of the library.
Metadata == [f \in DOMAIN Library |-> extract_pdf_metadata(Library[f])]

(* --------------------------- classify_paper --------------------------- *)

\* Mutant: the slice is off by one.
CombinedTextOffByOne(t, a) == Slice(t \o ". " \o a, 1, MaxChars + 1)

\* f"{title}. {abstract}"[:2000]
CombinedText(t, a) == Slice(t \o ". " \o a, 1, MaxChars)

TopLabels == {CATEGORIES[1], CATEGORIES[4]}

\* What requests.post and response.json() can produce (Strategy A).
Bodies ==
    { [json |-> FALSE, data |-> [unparsed |-> TRUE]],
      [json |-> TRUE,  data |-> [warnings |-> "none"]],
      [json |-> TRUE,  data |-> [error |-> "Model is currently loading"]] }
    \cup
    { [json |-> TRUE, data |-> [labels |-> << c >>, scores |-> << 92 >>]] :
        c \in TopLabels }

NoResponse ==
    [kind |-> "none", status_code |-> 0, json |-> FALSE,
     data |-> [unparsed |-> TRUE]]

Responses ==
    { [kind |-> "raised", status_code |-> 0, json |-> FALSE,
       data |-> [unparsed |-> TRUE]] }
    \cup
    { [kind |-> "response", status_code |-> st, json |-> b.json, data |-> b.data] :
        st \in {200, 503}, b \in Bodies }

\* The label classify_paper of paper.py returns once requests.post returned
\* or raised: response.json() runs before the status is looked at.
RemoteLabel(r) ==
    IF r.kind = "raised" THEN "Classification Error"
    ELSE IF ~r.json THEN "Classification Error"
    ELSE IF r.status_code # HTTP_OK THEN "API Error"
    ELSE IF "error" \in DOMAIN r.data THEN "Model Error"
    ELSE IF "labels" \notin DOMAIN r.data \/ "scores" \notin DOMAIN r.data
         THEN "Classification Error"
    ELSE r.data.labels[1]

\* What it prints on the way.
RemoteMessage(r) ==
    LET l == RemoteLabel(r)
    IN  CASE l = "Classification Error" -> "Classification error"
          [] l = "API Error" -> "API Error"
          [] l = "Model Error" -> "Model Error"
          [] OTHER -> "Assigned Label"

\* What the local pipeline can produce (Strategy B): the head of the ranking
\* with its score in hundredths, or an exception.
Results ==
    { [kind |-> "raised", labels |-> << >>, scores |-> << >>] }
    \cup
    { [kind |-> "results", labels |-> << c >>, scores |-> << s >>] :
        c \in TopLabels, s \in {20, 29, 30, 31, 92} }

NoResults == [kind |-> "none", labels |-> << >>, scores |-> << >>]

\* Mutant: the threshold is inclusive.
LocalLabelInclusive(r) ==
    IF r.kind = "raised" THEN "Classification Error"
    ELSE IF r.scores[1] >= Threshold THEN r.labels[1]
    ELSE "Low Confidence"

\* The label classify_paper of classifier.py returns once the pipeline
\* returned or raised.
LocalLabel(r) ==
    IF r.kind = "raised" THEN "Classification Error"
    ELSE IF r.scores[1] > Threshold THEN r.labels[1]
    ELSE "Low Confidence"

LocalMessage(r) ==
    LET l == LocalLabel(r)
    IN  CASE l = "Classification Error" -> "Classification error"
          [] l = "Low Confidence" -> "Low confidence"
          [] OTHER -> "Assigned Label"

(* ------------------------------- state -------------------------------- *)

VARIABLES
    strategy,       \* "A": paper.py, "B": classifier.py
    hf_api_key,     \* os.environ.get("HF_API_KEY") (Strategy A)
    listing,        \* what os.listdir(PDF_FOLDER) returns
    pc,             \* where process_pdfs is
    interrupted,    \* the global flag
    pdf_files,      \* process_pdfs: the enumerated documents
    data,           \* process_pdfs: the accumulated rows
    idx,            \* process_pdfs: position of the for loop in pdf_files
    pbar,           \* the progress bar's count
    title,          \* process_pdfs: title of the current document
    abstract,       \* process_pdfs: abstract of the current document
    label,          \* process_pdfs: label of the current document
    combined_text,  \* classify_paper: the classifier's input
    response,       \* classify_paper: what the classifier call produced
    written,        \* the tables df.to_csv wrote to CSV_PATH, oldest first
    console,        \* what was printed, oldest first
    extractCalls,   \* files extract_pdf_metadata was called for
    classifyCalls,  \* files classify_paper was called for
    modelCalls,     \* classifier invocations (requests.post, classifier(...))
    sigCount,       \* SIGINT deliveries so far
    interruptedAt   \* history: where the run was when the flag became true

vars ==
    << strategy, hf_api_key, listing, pc, interrupted, pdf_files, data, idx,
       pbar, title, abstract, label, combined_text, response, written,
       console, extractCalls, classifyCalls, modelCalls, sigCount,
       interruptedAt >>

config == << strategy, hf_api_key, listing >>

locals == << title, abstract, label, combined_text, response >>

logs == << extractCalls, classifyCalls, modelCalls >>

Never == [pc |-> "never", rows |-> 0]

Init ==
    /\ strategy \in {"A", "B"}
    /\ hf_api_key \in IF strategy = "A" THEN {None, Some(""), Some("hf_key")}
                      ELSE {None}
    /\ listing \in Listings
    /\ pc = "start"
    /\ interrupted = FALSE
    /\ pdf_files = << >>
    /\ data = << >>
    /\ idx = 1
    /\ pbar = 0
    /\ title = None
    /\ abstract = None
    /\ label = ""
    /\ combined_text = ""
    /\ response = IF strategy = "A" THEN NoResponse ELSE NoResults
    /\ written = << >>
    /\ console = << >>
    /\ extractCalls = << >>
    /\ classifyCalls = << >>
    /\ modelCalls = << >>
    /\ sigCount = 0
    /\ interruptedAt = Never

(* --------------------------- signal_handler --------------------------- *)

\* Mutant: the handler ends the loop where it is (the current document is
\* dropped and the run goes on to save).
signal_handler_abort ==
    /\ pc # "done"
    /\ sigCount < MaxSignals
    /\ sigCount' = sigCount + 1
    /\ interrupted' = TRUE
    /\ console' = Append(console, "Interruption received")
    /\ interruptedAt' = IF interrupted THEN interruptedAt
                        ELSE [pc |-> pc, rows |-> Len(data)]
    /\ pc' = IF pc \in {"start", "save"} THEN pc ELSE "save"
    /\ UNCHANGED << config, pdf_files, data, idx, pbar, locals, written, logs >>

\* SIGINT is delivered between two steps of the main program; the handler
\* sets the flag, prints, and returns to where the program was.
signal_handler ==
    /\ pc # "done"
    /\ sigCount < MaxSignals
    /\ sigCount' = sigCount + 1
    /\ interrupted' = TRUE
    /\ console' = Append(console, "Interruption received")
    /\ interruptedAt' = IF interrupted THEN interruptedAt
                        ELSE [pc |-> pc, rows |-> Len(data)]
    /\ UNCHANGED << config, pc, pdf_files, data, idx, pbar, locals, written, logs >>

(* ---------------------------- process_pdfs ---------------------------- *)

\* Mutant: no early return when nothing was enumerated.
EnumerateNoReturn ==
    /\ pc = "start"
    /\ pdf_files' = PdfFiles(listing)
    /\ pc' = "loop"
    /\ data' = << >>
    /\ UNCHANGED << config, interrupted, idx, pbar, locals, written, console,
                    logs, sigCount, interruptedAt >>

\* pdf_files = [...]; if not pdf_files: print, return; data = []
Enumerate ==
    /\ pc = "start"
    /\ pdf_files' = PdfFiles(listing)
    /\ IF pdf_files' = << >>
       THEN /\ console' = Append(console, "No PDF files found")
            /\ pc' = "done"
            /\ data' = data
       ELSE /\ console' = console
            /\ pc' = "loop"
            /\ data' = << >>
    /\ UNCHANGED << config, interrupted, idx, pbar, locals, written, logs,
                    sigCount, interruptedAt >>

\* Mutant: the flag is not looked at.
LoopCheckNoBreak ==
    /\ pc = "loop"
    /\ IF idx > Len(pdf_files)
       THEN /\ pc' = "save"
            /\ extractCalls' = extractCalls
       ELSE /\ pc' = "extracting"
            /\ extractCalls' = Append(extractCalls, pdf_files[idx])
    /\ UNCHANGED << config, interrupted, pdf_files, data, idx, pbar, locals,
                    written, console, classifyCalls, modelCalls, sigCount,
                    interruptedAt >>

\* The head of the for loop: the loop ends when pdf_files is exhausted or, at
\* `if interrupted: break`, when the flag is set; otherwise
\* extract_pdf_metadata is called for the next file.
LoopCheck ==
    /\ pc = "loop"
    /\ IF idx > Len(pdf_files) \/ interrupted
       THEN /\ pc' = "save"
            /\ extractCalls' = extractCalls
       ELSE /\ pc' = "extracting"
            /\ extractCalls' = Append(extractCalls, pdf_files[idx])
    /\ UNCHANGED << config, interrupted, pdf_files, data, idx, pbar, locals,
                    written, console, classifyCalls, modelCalls, sigCount,
                    interruptedAt >>

\* extract_pdf_metadata returns
ExtractReturn ==
    /\ pc = "extracting"
    /\ LET doc == Library[pdf_files[idx]]
           got == Metadata[pdf_files[idx]]
       IN  /\ title' = got[1]
           /\ abstract' = got[2]
           /\ console' = IF ExtractRaises(doc)
                         THEN Append(console, "Error processing")
                         ELSE console
    /\ pc' = "extracted"
    /\ UNCHANGED << config, interrupted, pdf_files, data, idx, pbar, label,
                    combined_text, response, written, logs, sigCount,
                    interruptedAt >>

\* Mutant: `is not None` in place of truthiness.
BranchNotNone ==
    /\ pc = "extracted"
    /\ IF title # None /\ abstract # None
       THEN /\ pc' = "classify"
            /\ classifyCalls' = Append(classifyCalls, pdf_files[idx])
            /\ label' = label
       ELSE /\ pc' = "append"
            /\ classifyCalls' = classifyCalls
            /\ label' = "Missing Metadata"
    /\ UNCHANGED << config, interrupted, pdf_files, data, idx, pbar, title,
                    abstract, combined_text, response, written, console,
                    extractCalls, modelCalls, sigCount, interruptedAt >>

\* if title and abstract: label = classify_paper(title, abstract)
\* else: label = "Missing Metadata"
Branch ==
    /\ pc = "extracted"
    /\ IF Truthy(title) /\ Truthy(abstract)
       THEN /\ pc' = "classify"
            /\ classifyCalls' = Append(classifyCalls, pdf_files[idx])
            /\ label' = label
       ELSE /\ pc' = "append"
            /\ classifyCalls' = classifyCalls
            /\ label' = "Missing Metadata"
    /\ UNCHANGED << config, interrupted, pdf_files, data, idx, pbar, title,
                    abstract, combined_text, response, written, console,
                    extractCalls, modelCalls, sigCount, interruptedAt >>

\* Mutant: the request is sent whether or not a key is configured.
ClassifyRemoteNoKeyCheck ==
    /\ pc = "classify"
    /\ strategy = "A"
    /\ console' = Append(console, "Processing")
    /\ combined_text' = CombinedText(title[1], abstract[1])
    /\ modelCalls' = Append(modelCalls,
          [file |-> pdf_files[idx], inputs |-> combined_text'])
    /\ label' = label
    /\ pc' = "requesting"
    /\ UNCHANGED << config, interrupted, pdf_files, data, idx, pbar, title,
                    abstract, response, written, extractCalls, classifyCalls,
                    sigCount, interruptedAt >>

\* paper.py classify_paper up to requests.post: without an API key it returns
\* "Authentication Error", otherwise it sends the request.
ClassifyRemote ==
    /\ pc = "classify"
    /\ strategy = "A"
    /\ IF ~Truthy(hf_api_key)
       THEN /\ console' = Append(console, "ERROR: HF_API_KEY not set")
            /\ label' = "Authentication Error"
            /\ pc' = "append"
            /\ UNCHANGED << combined_text, modelCalls >>
       ELSE /\ console' = Append(console, "Processing")
            /\ combined_text' = CombinedText(title[1], abstract[1])
            /\ modelCalls' = Append(modelCalls,
                  [file |-> pdf_files[idx], inputs |-> combined_text'])
            /\ label' = label
            /\ pc' = "requesting"
    /\ UNCHANGED << config, interrupted, pdf_files, data, idx, pbar, title,
                    abstract, response, written, extractCalls, classifyCalls,
                    sigCount, interruptedAt >>

\* paper.py classify_paper from the return of requests.post to its own return
RemoteReturn ==
    /\ pc = "requesting"
    /\ \E r \in Responses :
          /\ response' = r
          /\ label' = RemoteLabel(r)
          /\ console' = Append(console, RemoteMessage(r))
    /\ pc' = "append"
    /\ UNCHANGED << config, interrupted, pdf_files, data, idx, pbar, title,
                    abstract, combined_text, written, logs, sigCount,
                    interruptedAt >>

\* classifier.py classify_paper up to the call of the pipeline
ClassifyLocal ==
    /\ pc = "classify"
    /\ strategy = "B"
    /\ IF ~Truthy(title) \/ ~Truthy(abstract)
       THEN /\ label' = "Missing Metadata"
            /\ pc' = "append"
            /\ UNCHANGED << console, combined_text, modelCalls >>
       ELSE /\ console' = Append(console, "Processing")
            /\ combined_text' = CombinedText(title[1], abstract[1])
            /\ modelCalls' = Append(modelCalls,
                  [file |-> pdf_files[idx], inputs |-> combined_text'])
            /\ label' = label
            /\ pc' = "inferring"
    /\ UNCHANGED << config, interrupted, pdf_files, data, idx, pbar, title,
                    abstract, response, written, extractCalls, classifyCalls,
                    sigCount, interruptedAt >>

\* classifier.py classify_paper from the return of the pipeline to its own
LocalReturn ==
    /\ pc = "inferring"
    /\ \E r \in Results :
          /\ response' = r
          /\ label' = LocalLabel(r)
          /\ console' = Append(console, LocalMessage(r))
    /\ pc' = "append"
    /\ UNCHANGED << config, interrupted, pdf_files, data, idx, pbar, title,
                    abstract, combined_text, written, logs, sigCount,
                    interruptedAt >>

\* Mutant: a document without metadata gets no row.
AppendRowSkipMissing ==
    /\ pc = "append"
    /\ data' = IF label = "Missing Metadata" THEN data
               ELSE Append(data, << pdf_files[idx], title, abstract, label >>)
    /\ pbar' = pbar + 1
    /\ idx' = idx + 1
    /\ title' = None
    /\ abstract' = None
    /\ label' = ""
    /\ combined_text' = ""
    /\ response' = IF strategy = "A" THEN NoResponse ELSE NoResults
    /\ pc' = "loop"
    /\ UNCHANGED << config, interrupted, pdf_files, written, console, logs,
                    sigCount, interruptedAt >>

\* data.append([pdf_file, title, abstract, label]); pbar.update(1); the
\* locals of the iteration are dead from here on.
AppendRow ==
    /\ pc = "append"
    /\ data' = Append(data, << pdf_files[idx], title, abstract, label >>)
    /\ pbar' = pbar + 1
    /\ idx' = idx + 1
    /\ title' = None
    /\ abstract' = None
    /\ label' = ""
    /\ combined_text' = ""
    /\ response' = IF strategy = "A" THEN NoResponse ELSE NoResults
    /\ pc' = "loop"
    /\ UNCHANGED << config, interrupted, pdf_files, written, console, logs,
                    sigCount, interruptedAt >>

\* Mutant: the table is written twice.
SaveCsvTwice ==
    /\ pc = "save"
    /\ written' = Append(Append(written, data), data)
    /\ console' = Append(console, "Labeling complete")
    /\ pc' = "done"
    /\ UNCHANGED << config, interrupted, pdf_files, data, idx, pbar, locals,
                    logs, sigCount, interruptedAt >>

\* df = pd.DataFrame(data, ...); df.to_csv(CSV_PATH, index=False); print
SaveCsv ==
    /\ pc = "save"
    /\ written' = Append(written, data)
    /\ console' = Append(console, "Labeling complete")
    /\ pc' = "done"
    /\ UNCHANGED << config, interrupted, pdf_files, data, idx, pbar, locals,
                    logs, sigCount, interruptedAt >>

Next ==
    \/ signal_handler
    \/ Enumerate
    \/ LoopCheck
    \/ ExtractReturn
    \/ Branch
    \/ ClassifyRemote
    \/ RemoteReturn
    \/ ClassifyLocal
    \/ LocalReturn
    \/ AppendRow
    \/ SaveCsv

Spec == Init /\ [][Next]_vars

(* ------------------------------ properties ---------------------------- *)

Sentinels ==
    {"Missing Metadata", "Authentication Error", "API Error", "Model Error",
     "Classification Error", "Low Confidence"}

InLoop ==
    pc \in {"loop", "extracting", "extracted", "classify", "requesting",
            "inferring", "append"}

\* Inside one document: between the call of extract_pdf_metadata and the append.
InDocument ==
    {"extracting", "extracted", "classify", "requesting", "inferring", "append"}

Files(calls) == {calls[i].file : i \in DOMAIN calls}

Called(calls) == {calls[i] : i \in DOMAIN calls}

\* Row i is the row of the i-th enumerated document: its file name, what
\* extraction returns for it, and a category or a sentinel as label.
RowOfDocument(i) ==
    /\ data[i][1] = pdf_files[i]
    /\ << data[i][2], data[i][3] >> = Metadata[pdf_files[i]]
    /\ data[i][4] \in Sentinels \cup TopLabels
    /\ (data[i][2] = None \/ data[i][3] = None) => data[i][4] = "Missing Metadata"

\* The documents the loop visits, given where the flag first became true:
\* all of them when it never did or did only after the loop; those before
\* the check that saw it otherwise.
Visited ==
    LET n == Len(pdf_files)
    IN  CASE interruptedAt.pc \in {"never", "save"} -> n
          [] interruptedAt.pc \in {"start", "loop"} -> interruptedAt.rows
          [] OTHER -> interruptedAt.rows + 1

\* C1, as claimed: when process_pdfs finishes, the result list holds exactly
\* one row for every enumerated document, in enumeration order, whatever the
\* extraction and classification outcomes.
C1_EveryDocumentHasARow ==
    (pc = "done" /\ pdf_files # << >>) =>
        /\ Len(data) = Len(pdf_files)
        /\ \A i \in 1..Len(data) : RowOfDocument(i)

\* C1, amended: when process_pdfs finishes, the result list holds exactly one
\* row for every document the loop visited, in enumeration order: every
\* enumerated document when the flag was not set at any loop check, the
\* documents before the check that saw the flag otherwise.  A failed
\* extraction or classification gives a sentinel-labelled row, never a
\* missing one.
C1_EveryVisitedDocumentHasARow ==
    (pc = "done" /\ pdf_files # << >>) =>
        /\ Len(data) = Visited
        /\ Len(data) <= Len(pdf_files)
        /\ ~interrupted => Len(data) = Len(pdf_files)
        /\ \A i \in 1..Len(data) : RowOfDocument(i)

\* C1, witness: an uninterrupted run over an unreadable document and one
\* whose classification raised, each with its sentinel row.
C1_Witness ==
    /\ pc = "done"
    /\ ~interrupted
    /\ Len(data) = 2
    /\ data[1] = << "corrupt.pdf", None, None, "Missing Metadata" >>
    /\ data[2][4] = "Classification Error"

\* C2: if the flag becomes true after document i was processed and before
\* the loop checks it for document i+1 (0 <= i < n), the rows written at the
\* end are the rows of documents 1..i in order, and neither
\* extract_pdf_metadata nor classify_paper is ever called for i+1..n.
C2_CancelledAfterDocument ==
    LET i == interruptedAt.rows
    IN  (interruptedAt.pc \in {"start", "loop"} /\ pc # "start"
            /\ i < Len(pdf_files)) =>
            /\ Len(data) = i
            /\ \A j \in 1..i : RowOfDocument(j)
            /\ extractCalls = SubSeq(pdf_files, 1, i)
            /\ \A j \in DOMAIN classifyCalls :
                  classifyCalls[j] \in {pdf_files[k] : k \in 1..i}
            /\ Files(modelCalls) \subseteq {pdf_files[k] : k \in 1..i}
            /\ pc \in {"loop", "save", "done"}
            /\ pc = "done" => written = << data >>

\* C2, witness: the flag was set after the first of two documents; the run
\* ended with that one row written.
C2_Witness ==
    /\ pc = "done"
    /\ interruptedAt = [pc |-> "loop", rows |-> 1]
    /\ Len(pdf_files) = 2
    /\ written = << data >>
    /\ Len(data) = 1

\* C3: once the loop has ended, completed or cut short (also when the flag
\* was set before the first document), the rows are written exactly once,
\* and nothing is written before the loop has ended.
C3_WrittenOnceAfterLoop ==
    /\ (pc = "start" \/ InLoop \/ pc = "save") => written = << >>
    /\ (pc = "done" /\ pdf_files # << >>) => written = << data >>

\* C3, witness: the flag was set before the first document of a non-empty
\* folder, and the empty table was written once.
C3_Witness ==
    /\ pc = "done"
    /\ interruptedAt.pc \in {"start", "loop"}
    /\ interruptedAt.rows = 0
    /\ pdf_files # << >>
    /\ written = << << >> >>

\* C4: if no enumerated entry ends in ".pdf", process_pdfs terminates
\* without calling the extractor or the classifier and without writing a
\* table; a table is written only when some PDF entry was enumerated.
C4_NoPdfNoTable ==
    /\ (\A i \in DOMAIN listing : ~EndsWith(listing[i], ".pdf")) =>
          /\ pc \in {"start", "done"}
          /\ written = << >>
          /\ extractCalls = << >>
          /\ classifyCalls = << >>
          /\ modelCalls = << >>
    /\ written # << >> => \E i \in DOMAIN listing : EndsWith(listing[i], ".pdf")

\* C4, witness: a folder with entries, none of them a ".pdf", ran to the end.
C4_Witness ==
    /\ pc = "done"
    /\ Len(listing) = 2
    /\ \A i \in DOMAIN listing : listing[i] \in {"notes.txt", "OLD.PDF"}
    /\ console = << "No PDF files found" >>
    /\ written = << >>

\* C5, as claimed: the classifier (remote request in A, local pipeline in B)
\* is invoked for a document iff extraction returned both a title and an
\* abstract; when either is absent the label is "Missing Metadata" and no
\* classifier call is made.
C5_ClassifiedIffBothReturned ==
    \A i \in DOMAIN data :
        LET f == data[i][1]
            both == data[i][2] # None /\ data[i][3] # None
        IN  /\ f \in Files(modelCalls) <=> both
            /\ ~both => /\ data[i][4] = "Missing Metadata"
                        /\ f \notin Files(modelCalls)

\* C5, amended: classify_paper is called for a document iff extraction
\* returned a non-empty title and a non-empty abstract; the classifier
\* proper (remote request in A, local pipeline in B) is invoked iff, in
\* addition, Strategy A has a non-empty API key; when title or abstract is
\* absent or empty the label is "Missing Metadata" and neither call is made.
C5_ClassifiedIffBothNonEmpty ==
    \A i \in DOMAIN data :
        LET f == data[i][1]
            both == /\ data[i][2] # None /\ data[i][2] # << "" >>
                    /\ data[i][3] # None /\ data[i][3] # << "" >>
        IN  /\ (\E j \in DOMAIN classifyCalls : classifyCalls[j] = f) <=> both
            /\ f \in Files(modelCalls) <=>
                  (both /\ (strategy = "B" \/ hf_api_key \notin {None, << "" >>}))
            /\ ~both => data[i][4] = "Missing Metadata"

\* C5, witness: a document with an empty title and an abstract got
\* "Missing Metadata" without any classifier call.
C5_Witness ==
    /\ pc = "done"
    /\ data = << << "blank.pdf", << "" >>, << "Bandits." >>, "Missing Metadata" >> >>
    /\ classifyCalls = << >>
    /\ modelCalls = << >>

\* C6, as claimed: in Strategy A without an API key, every document whose
\* title and abstract were both extracted is labelled "Authentication
\* Error", and no network request is made in the whole run.
C6_NoKeyAllExtracted ==
    (strategy = "A" /\ hf_api_key = None) =>
        /\ modelCalls = << >>
        /\ \A i \in DOMAIN data :
              (data[i][2] # None /\ data[i][3] # None) =>
                  data[i][4] = "Authentication Error"

\* C6, amended: in Strategy A without an API key (unset or empty), every
\* document whose extracted title and abstract are both non-empty is
\* labelled "Authentication Error", and no network request is made in the
\* whole run.
C6_NoKeyAllNonEmpty ==
    (strategy = "A" /\ hf_api_key \in {None, << "" >>}) =>
        /\ modelCalls = << >>
        /\ \A i \in DOMAIN data :
              (data[i][2] \notin {None, << "" >>} /\ data[i][3] \notin {None, << "" >>})
                  => data[i][4] = "Authentication Error"

\* C6, witness: a run without a key ended with two documents labelled
\* "Authentication Error".
C6_Witness ==
    /\ pc = "done"
    /\ strategy = "A"
    /\ hf_api_key = None
    /\ Len(data) = 2
    /\ \A i \in DOMAIN data : data[i][4] = "Authentication Error"
    /\ modelCalls = << >>

\* C7, as claimed: with a key, every response whose status is not success
\* gives "API Error", whatever its body; every success response whose
\* payload carries an error field gives "Model Error"; "Classification
\* Error" is returned only when neither holds.
C7_StatusDecidesFirst ==
    (strategy = "A" /\ pc = "append" /\ response.kind = "response") =>
        LET failed == response.status_code # 200
            errorField == response.json /\ "error" \in DOMAIN response.data
        IN  /\ failed => label = "API Error"
            /\ (~failed /\ errorField) => label = "Model Error"
            /\ label = "Classification Error" => (~failed /\ ~errorField)

\* C8: in Strategy B, when inference succeeds with top pair (label, score),
\* the result is the top label if score > 0.3 and "Low Confidence" if
\* score <= 0.3: 0.30 gives "Low Confidence", 0.31 the top label.
C8_ThresholdIsExclusive ==
    (strategy = "B" /\ pc = "append" /\ response.kind = "results") =>
        LET score == response.scores[1]
            top == response.labels[1]
        IN  /\ score > 30 => label = top
            /\ score <= 30 => label = "Low Confidence"
            /\ score = 30 => label = "Low Confidence"
            /\ score = 31 => label = top

\* C8, witness: a score of exactly 0.30 was labelled "Low Confidence".
C8_Witness ==
    /\ strategy = "B"
    /\ pc = "append"
    /\ response.kind = "results"
    /\ response.scores = << 30 >>
    /\ label = "Low Confidence"

\* C9, as claimed: the classifier's input is at most 2000 characters long
\* and is the first 2000 characters of title, ".", abstract, with nothing
\* else between them.
C9_InputIsTitleDotAbstract ==
    \A c \in Called(modelCalls) :
        LET got == Metadata[c.file]
            full == got[1][1] \o "." \o got[2][1]
        IN  /\ Len(c.inputs) <= 2000
            /\ c.inputs = IF Len(full) <= 2000 THEN full ELSE SubSeq(full, 1, 2000)

\* C9, amended: the classifier's input is at most 2000 characters long and
\* is the first 2000 characters of title, ". " (a period and a space),
\* abstract.
C9_InputIsTitleDotSpaceAbstract ==
    \A c \in Called(modelCalls) :
        LET got == Metadata[c.file]
            full == got[1][1] \o ". " \o got[2][1]
        IN  /\ Len(c.inputs) <= 2000
            /\ c.inputs = IF Len(full) <= 2000 THEN full ELSE SubSeq(full, 1, 2000)

\* C9, witness: a document whose title and abstract exceed 2000 characters
\* was classified on an input of exactly 2000.
C9_Witness ==
    \E c \in Called(modelCalls) :
        /\ c.file = "long.pdf"
        /\ Len(c.inputs) = 2000
        /\ Len(Metadata[c.file][2][1]) > 2000

\* What a signal that arrived inside document i+1 leaves of that document.
InterruptedDocumentCompletes ==
    LET i == interruptedAt.rows
    IN  (interruptedAt.pc \in InDocument) =>
            /\ pc \in InDocument => Len(data) = i
            /\ pc \notin InDocument =>
                  /\ Len(data) = i + 1
                  /\ \A j \in 1..(i + 1) : RowOfDocument(j)
                  /\ (data[i + 1][2] \notin {None, << "" >>}
                        /\ data[i + 1][3] \notin {None, << "" >>})
                      => /\ \E j \in DOMAIN classifyCalls :
                                classifyCalls[j] = pdf_files[i + 1]
                         /\ data[i + 1][4] # "Missing Metadata"
                  /\ extractCalls = SubSeq(pdf_files, 1, i + 1)
                  /\ pc \in {"loop", "save", "done"}
                  /\ pc = "done" => written = << data >>

\* C10, as claimed: a signal delivered while document i is extracted or
\* classified does not abort it: the handler only sets the flag and
\* returns, the document runs to completion and its row is appended, the
\* loop stops at its next check, and the flag is never cleared.
C10_HandlerOnlySetsFlag ==
    /\ [] InterruptedDocumentCompletes
    /\ [][interrupted => interrupted']_vars
    /\ [][sigCount' # sigCount =>
            /\ interrupted'
            /\ UNCHANGED << config, pc, pdf_files, data, idx, pbar, locals,
                            written, console, logs >>]_vars

\* C10, amended: as claimed, except that the handler sets the flag, prints
\* one message to the console, and returns.
C10_HandlerSetsFlagAndPrints ==
    /\ [] InterruptedDocumentCompletes
    /\ [][interrupted => interrupted']_vars
    /\ [][sigCount' # sigCount =>
            /\ interrupted'
            /\ console' = Append(console, "Interruption received")
            /\ UNCHANGED << config, pc, pdf_files, data, idx, pbar, locals,
                            written, logs >>]_vars

\* C10, witness: the signal arrived while the request for the first of two
\* documents was in flight; the run ended with exactly that document's row.
C10_Witness ==
    /\ pc = "done"
    /\ interruptedAt = [pc |-> "requesting", rows |-> 0]
    /\ Len(pdf_files) = 2
    /\ Len(data) = 1
    /\ data[1][4] \in TopLabels
    /\ written = << data >>

====
